---------------------------- MODULE Spec2Model ----------------------------
(***************************************************************************)
(* reader2pdf: the concurrent render pipeline of cli.py / browser_async.py *)
(*                                                                         *)
(* One coroutine per address (_worker), admitted by an asyncio.Semaphore,  *)
(* each attempt running render_url_to_pdf_async, get_page_title and the    *)
(* finalizing rename; one consumer coroutine (ui_loop) reading the event   *)
(* queue; _run_async opening and closing the browser around them.          *)
(*                                                                         *)
(* asyncio runs one coroutine at a time and switches only at an await      *)
(* that suspends: every action below is the code between two such awaits.  *)
(* Every browser-engine operation either returns or raises; which one is   *)
(* the engine's choice.                                                    *)
(***************************************************************************)
EXTENDS Integers, Sequences, FiniteSets, TLC

(***************************************************************************)
(* Bounds of the model.                                                    *)
(***************************************************************************)
MaxLines == 2
MaxConcurrency == 2
MaxRetries == 3
(* The attempts the workers of one run can make together, each worker      *)
(* making at most retries + 2.                                             *)
MaxAttempts == 5

(***************************************************************************)
(* Program constants.                                                      *)
(***************************************************************************)
MaxTitleLen == 200
BackoffFactor == 2
BackoffCap == 5

Addresses == {"a", "b"}

(* A line of the address file: an address, a blank line or a comment.      *)
Lines == Addresses \cup {"", "#"}

RECURSIVE SeqsUpTo(_, _)
SeqsUpTo(S, n) ==
    IF n = 0 THEN {<<>>}
    ELSE LET shorter == SeqsUpTo(S, n - 1)
         IN  shorter \cup {Append(s, x) : s \in {t \in shorter : Len(t) = n - 1}, x \in S}

UrlFiles == SeqsUpTo(Lines, MaxLines)

(* utils.read_url_lines: the addresses of the file in file order, blank    *)
(* lines and comment lines left out.                                       *)
read_url_lines(file) == SelectSeq(file, LAMBDA l : l \in Addresses)

(* utils.sha256_hex: a hex digest, one per address.                        *)
sha256_hex(url) == "h" \o url

Min(x, y) == IF x <= y THEN x ELSE y
Max(x, y) == IF x >= y THEN x ELSE y

(***************************************************************************)
(* Page titles are sequences of characters.                                *)
(***************************************************************************)
IllegalChars == {"<", ">", ":", "\"", "/", "\\", "|", "?", "*"}
Whitespace == {" ", "\t", "\n"}

RECURSIVE lstrip(_)
lstrip(s) == IF s # <<>> /\ Head(s) \in Whitespace THEN lstrip(Tail(s)) ELSE s

RECURSIVE rstrip(_)
rstrip(s) ==
    IF s # <<>> /\ s[Len(s)] \in Whitespace THEN rstrip(SubSeq(s, 1, Len(s) - 1)) ELSE s

strip(s) == rstrip(lstrip(s))

(* re.sub(r'\s+', '_', s): every maximal run of whitespace becomes one "_" *)
RECURSIVE collapse_ws(_)
collapse_ws(s) ==
    IF s = <<>> THEN <<>>
    ELSE IF Head(s) \in Whitespace
         THEN <<"_">> \o collapse_ws(lstrip(s))
         ELSE <<Head(s)>> \o collapse_ws(Tail(s))

RECURSIVE Join(_)
Join(s) == IF s = <<>> THEN "" ELSE Head(s) \o Join(Tail(s))

(* sanitize_filename (lines 33-43), each step applied to the value of the *)
(* step before it: the illegal characters removed, the ends stripped and   *)
(* the whitespace replaced, the cut at 200 characters, and "untitled" for  *)
(* an empty result.                                                        *)
sanitize_filename(title) ==
    CHOOSE name \in
        { IF cut # <<>> THEN Join(cut) ELSE "untitled" :
            cut \in { IF Len(replaced) > MaxTitleLen
                      THEN SubSeq(replaced, 1, MaxTitleLen) ELSE replaced :
                replaced \in { collapse_ws(strip(removed)) :
                    removed \in {SelectSeq(title, LAMBDA c : c \notin IllegalChars)} } } } :
        TRUE

(* What page.title() can return for the pages of the run: no title, a      *)
(* title with whitespace and illegal characters, and one that spells the   *)
(* temporary name of address "a".                                          *)
PageTitles ==
    { <<>>,
      <<" ", "t", "/">>,
      <<"t", "e", "m", "p", "_", "h", "a">> }

UNTITLED == <<"u", "n", "t", "i", "t", "l", "e", "d">>

(***************************************************************************)
(* State.                                                                  *)
(*   urls, max_concurrency, retries  the arguments of _run_async           *)
(*   main      where _run_async is                                         *)
(*   browser_open, ctx_open          the Session                           *)
(*   sem       the value of the asyncio.Semaphore (free permits)           *)
(*   pc, attempt, exc, title         each worker's position and locals     *)
(*   pages     each worker's open page handles, by kind                    *)
(*   fs        the files of out_dir: name -> who wrote it, in which        *)
(*             attempt, and whether the write has completed                *)
(*   event_q   the asyncio.Queue; completed, processed_lines: ui_loop      *)
(*   sleeps, results, emitted        history: each worker's backoff        *)
(*             sleeps, the way each of its attempts ended, and every       *)
(*             event ever put on the queue                                 *)
(*   waited    history: how the worker's last network-idle wait ended,     *)
(*             kept until its next engine operation                        *)
(*   article   what the extraction of the worker's current attempt         *)
(*             returned, kept until the attempt ends                       *)
(*   sync      the one call of the synchronous render_url_to_pdf           *)
(*             (browser.py): its position, its argument, the driver, the   *)
(*             browser, the context and the two pages, the article, the    *)
(*             pending exception and the file at pdf_path                  *)
(*   collector the LinkCollector of collector.py and the run of its        *)
(*             collect_links: the base URLs, collected_links,              *)
(*             links_by_source, the semaphore of the site tasks and, for   *)
(*             each site task, its position and its local variables; what  *)
(*             the web offers (links per domain, sites with a load-more    *)
(*             button); history: who collected a link first, the highest   *)
(*             page requested, the clicks made but not counted             *)
(***************************************************************************)
VARIABLES urls, max_concurrency, retries, main, browser_open, ctx_open, sem,
          pc, attempt, exc, title, pages, fs, event_q, completed,
          processed_lines, sleeps, results, emitted, waited, article, sync,
          collector

vars == <<urls, max_concurrency, retries, main, browser_open, ctx_open, sem,
          pc, attempt, exc, title, pages, fs, event_q, completed,
          processed_lines, sleeps, results, emitted, waited, article, sync,
          collector>>

(* The state of the concurrent pipeline (cli.py, browser_async.py).        *)
pipeline == <<urls, max_concurrency, retries, main, browser_open, ctx_open, sem,
              pc, attempt, exc, title, pages, fs, event_q, completed,
              processed_lines, sleeps, results, emitted, waited, article>>

(* The state of the programs the pipeline does not call.                   *)
elsewhere == <<sync, collector>>

config == <<urls, max_concurrency, retries>>
session == <<main, browser_open, ctx_open>>
ui == <<completed, processed_lines>>

(* What the exception handler of _worker writes.                           *)
handled == <<fs, results, exc, sleeps, sem, event_q, emitted, article>>

Workers == 1 .. Len(urls)

(* The positions at which a worker is inside "async with sem".             *)
Guarded ==
    {"src_new", "goto", "idle", "content", "src_close", "proc_new", "proc_init",
     "inject", "extract", "render", "eager", "idle2", "pdf", "pdf_write",
     "proc_close", "title_new", "title_goto", "title_read", "title_close",
     "finalize", "sleep"}

NoPages == [src |-> 0, proc |-> 0, ttl |-> 0]

(* temp_pdf_path = out_dir / f"temp_{sha256_hex(url)}.pdf"                 *)
temp_pdf_path(url) == "temp_" \o sha256_hex(url) \o ".pdf"

(* The candidates of the collision loop: safe_title.pdf, then              *)
(* safe_title_1.pdf, safe_title_2.pdf, ...                                 *)
candidate(safe_title, k) ==
    IF k = 0 THEN safe_title \o ".pdf"
    ELSE safe_title \o "_" \o ToString(k) \o ".pdf"

RECURSIVE first_free(_, _, _)
first_free(files, safe_title, k) ==
    IF candidate(safe_title, k) \in files THEN first_free(files, safe_title, k + 1)
    ELSE candidate(safe_title, k)

final_pdf_path(files, safe_title) == first_free(files, safe_title, 0)

(* A variant used to test the properties below: the test that allows one   *)
(* attempt less.                                                           *)
retry_allowed_one_less(att, r) == att <= r

(* attempt <= retries + 1                                                  *)
retry_allowed(att, r) == att <= r + 1

(* A variant used to test the properties below: the sleep without its cap. *)
backoff_uncapped(att) == BackoffFactor * att

(* min(2 * attempt, 5)                                                     *)
backoff(att) == Min(BackoffFactor * att, BackoffCap)

(* A variant used to test the properties below: the semaphore built with  *)
(* the configured value as it is.                                          *)
permits_as_configured(c) == c

(* asyncio.Semaphore(max(1, max_concurrency))                              *)
permits(c) == Max(1, c)

Remove(f, name) == [n \in DOMAIN f \ {name} |-> f[n]]
Put(f, name, file) == [n \in DOMAIN f \cup {name} |-> IF n = name THEN file ELSE f[n]]

Event(status, url, detail) == <<status, url, detail>>

(* The line ui_loop keeps for an event (lines 234-239; the check mark and  *)
(* the cross are written "ok" and "x"): an ok line does not show the       *)
(* result.                                                                 *)
line(event) ==
    IF event[1] = "ok" THEN "[green]ok[/green] " \o event[2]
    ELSE "[red]x[/red] " \o event[2] \o "  [dim]" \o event[3] \o "[/dim]"

(* No LinkCollector has been made.                                         *)
NoCollector ==
    [main |-> "none", base_urls |-> << >>, supply |-> 0, buttons |-> {},
     collected_links |-> {}, links_by_source |-> << >>, semaphore |-> 0,
     site |-> << >>, first |-> << >>]

(* The synchronous render_url_to_pdf before it is called: nothing of it   *)
(* exists.                                                                 *)
NotCalled ==
    [pc |-> "none", url |-> "", p |-> "none", browser |-> "none", ctx |-> "none",
     src |-> "none", proc |-> "none", article |-> "none", exc |-> "none",
     file |-> "absent"]

(***************************************************************************)
(* The states a run starts from.                                           *)
(***************************************************************************)
(* The state of a run before launch_browser, its arguments apart.          *)
Fresh ==
    /\ main = "launch"
    /\ browser_open = FALSE
    /\ ctx_open = FALSE
    /\ sem = 0
    /\ pc = [i \in Workers |-> "start"]
    /\ attempt = [i \in Workers |-> 0]
    /\ exc = [i \in Workers |-> "none"]
    /\ title = [i \in Workers |-> <<>>]
    /\ pages = [i \in Workers |-> NoPages]
    /\ event_q = <<>>
    /\ completed = 0
    /\ processed_lines = <<>>
    /\ sleeps = [i \in Workers |-> <<>>]
    /\ results = [i \in Workers |-> <<>>]
    /\ emitted = <<>>
    /\ waited = [i \in Workers |-> "none"]
    /\ article = [i \in Workers |-> "none"]

InitWith(lists, cs, rs) ==
    /\ urls \in lists
    /\ max_concurrency \in cs
    /\ retries \in rs
    /\ Len(urls) * (retries + 2) <= MaxAttempts
    /\ fs = << >>
    /\ Fresh
    /\ sync = NotCalled
    /\ collector = NoCollector

Init ==
    InitWith({read_url_lines(f) : f \in UrlFiles}, 0 .. MaxConcurrency, 0 .. MaxRetries)

(***************************************************************************)
(* _worker                                                                 *)
(***************************************************************************)
Running(i) == main = "gather" /\ i \in Workers

(* The exceptions of the run, by class: the engine's Error, its            *)
(* TimeoutError (navigation and load-state waits) and os.rename's          *)
(* FileNotFoundError.                                                      *)
EngineErrors == {"Error"}
NavigationErrors == {"Error", "TimeoutError"}

(* How an attempt ended: "ok", or the origin of its exception.             *)
Origin(e) == IF e = "FileNotFoundError" THEN "os" ELSE "engine"

(* Variants of the handler used to test the properties below.              *)
(* The handler that puts a fail event for every failed attempt.            *)
Except_reports_every_failure(i, e, files) ==
    LET tmp == temp_pdf_path(urls[i])
    IN  /\ fs' = IF tmp \in DOMAIN files THEN Remove(files, tmp) ELSE files
        /\ results' = [results EXCEPT ![i] = Append(@, Origin(e))]
        /\ exc' = [exc EXCEPT ![i] = "none"]
        /\ article' = [article EXCEPT ![i] = "none"]
        /\ event_q' = Append(event_q, Event("fail", urls[i], e))
        /\ emitted' = Append(emitted, [worker |-> i, status |-> "fail",
                                       url |-> urls[i], detail |-> e])
        /\ IF retry_allowed(attempt[i], retries)
           THEN /\ pc' = [pc EXCEPT ![i] = "sleep"]
                /\ sleeps' = [sleeps EXCEPT ![i] = Append(@, backoff(attempt[i]))]
                /\ UNCHANGED sem
           ELSE /\ sem' = sem + 1
                /\ pc' = [pc EXCEPT ![i] = "done"]
                /\ UNCHANGED sleeps

(* The handler that gives the permit back before it sleeps.                *)
Except_releases_before_sleep(i, e, files) ==
    LET tmp == temp_pdf_path(urls[i])
    IN  /\ fs' = IF tmp \in DOMAIN files THEN Remove(files, tmp) ELSE files
        /\ results' = [results EXCEPT ![i] = Append(@, Origin(e))]
        /\ exc' = [exc EXCEPT ![i] = "none"]
        /\ article' = [article EXCEPT ![i] = "none"]
        /\ sem' = sem + 1
        /\ IF retry_allowed(attempt[i], retries)
           THEN /\ pc' = [pc EXCEPT ![i] = "sleep"]
                /\ sleeps' = [sleeps EXCEPT ![i] = Append(@, backoff(attempt[i]))]
                /\ UNCHANGED <<event_q, emitted>>
           ELSE /\ event_q' = Append(event_q, Event("fail", urls[i], e))
                /\ emitted' = Append(emitted, [worker |-> i, status |-> "fail",
                                               url |-> urls[i], detail |-> e])
                /\ pc' = [pc EXCEPT ![i] = "done"]
                /\ UNCHANGED sleeps

(* "except Exception as exc" (lines 100-110), entered with the files as    *)
(* the failed statement left them: delete the temporary file, then back    *)
(* off or report the final failure and leave the semaphore block.          *)
Except(i, e, files) ==
    LET tmp == temp_pdf_path(urls[i])
    IN  /\ fs' = IF tmp \in DOMAIN files THEN Remove(files, tmp) ELSE files
        /\ results' = [results EXCEPT ![i] = Append(@, Origin(e))]
        /\ exc' = [exc EXCEPT ![i] = "none"]
        /\ article' = [article EXCEPT ![i] = "none"]
        /\ IF retry_allowed(attempt[i], retries)
           THEN /\ pc' = [pc EXCEPT ![i] = "sleep"]
                /\ sleeps' = [sleeps EXCEPT ![i] = Append(@, backoff(attempt[i]))]
                /\ UNCHANGED <<sem, event_q, emitted>>
           ELSE /\ event_q' = Append(event_q, Event("fail", urls[i], e))
                /\ emitted' = Append(emitted, [worker |-> i, status |-> "fail",
                                               url |-> urls[i], detail |-> e])
                /\ sem' = sem + 1
                /\ pc' = [pc EXCEPT ![i] = "done"]
                /\ UNCHANGED sleeps

(* The worker goes on to its next await.                                   *)
Goes(i, to) ==
    /\ pc' = [pc EXCEPT ![i] = to]
    /\ UNCHANGED handled

(* The pending exception of a "try ... finally" waits for the finally.     *)
Pending(i, e, to) ==
    /\ pc' = [pc EXCEPT ![i] = to]
    /\ exc' = [exc EXCEPT ![i] = e]
    /\ UNCHANGED <<fs, results, sleeps, sem, event_q, emitted, article>>

(* The worker that enters without waiting for a permit.                    *)
Acquire_without_waiting(i) ==
    /\ Running(i)
    /\ pc[i] = "acquire"
    /\ sem' = sem - 1
    /\ pc' = [pc EXCEPT ![i] = "src_new"]
    /\ UNCHANGED <<elsewhere, config, session, attempt, exc, title, pages, fs, event_q, ui,
                   sleeps, results, emitted, article, waited>>

(* async with sem (line 78): a worker that found no free permit is         *)
(* suspended in sem.acquire() until it gets one. Which of the suspended    *)
(* workers a freed permit goes to is the semaphore's choice (it differs    *)
(* between versions of asyncio).                                           *)
Acquire(i) ==
    /\ Running(i)
    /\ pc[i] = "acquire"
    /\ sem > 0
    /\ sem' = sem - 1
    /\ pc' = [pc EXCEPT ![i] = "src_new"]
    /\ UNCHANGED <<elsewhere, config, session, attempt, exc, title, pages, fs, event_q, ui,
                   sleeps, results, emitted, article, waited>>

(* render_url_to_pdf_async: src = await ctx.new_page() (line 147), before  *)
(* the try: a raise goes straight to the handler.                          *)
NewSrcPage(i) ==
    /\ Running(i)
    /\ pc[i] = "src_new"
    /\ \/ /\ Goes(i, "goto")
          /\ pages' = [pages EXCEPT ![i].src = @ + 1]
       \/ /\ \E e \in EngineErrors : Except(i, e, fs)
          /\ UNCHANGED pages
    /\ UNCHANGED <<elsewhere, config, session, attempt, title, ui, waited>>

(* _read_source_html: await page.goto(url, wait_until="domcontentloaded",  *)
(* timeout=...) (line 58), inside "try ... finally: await src.close()".    *)
Goto(i) ==
    /\ Running(i)
    /\ pc[i] = "goto"
    /\ \/ Goes(i, "idle")
       \/ \E e \in NavigationErrors : Pending(i, e, "src_close")
    /\ UNCHANGED <<elsewhere, config, session, attempt, title, pages, ui, waited>>

(* A variant used to test the properties below: the wait whose timeout is *)
(* not caught.                                                             *)
WaitIdle_timeout_raises(i) ==
    /\ Running(i)
    /\ pc[i] = "idle"
    /\ \/ /\ Goes(i, "content")
          /\ waited' = [waited EXCEPT ![i] = "idle"]
       \/ /\ Pending(i, "TimeoutError", "src_close")
          /\ waited' = [waited EXCEPT ![i] = "timed_out"]
       \/ /\ \E e \in EngineErrors : Pending(i, e, "src_close")
          /\ UNCHANGED waited
    /\ UNCHANGED <<elsewhere, config, session, attempt, title, pages, ui>>

(* wait_for_load_state("networkidle") (lines 59-62): it returns, or its    *)
(* PWTimeoutError is swallowed; another error propagates.                  *)
WaitIdle(i) ==
    /\ Running(i)
    /\ pc[i] = "idle"
    /\ \/ /\ Goes(i, "content")
          /\ \E w \in {"idle", "timed_out"} : waited' = [waited EXCEPT ![i] = w]
       \/ /\ \E e \in EngineErrors : Pending(i, e, "src_close")
          /\ UNCHANGED waited
    /\ UNCHANGED <<elsewhere, config, session, attempt, title, pages, ui>>

(* return await page.content() (line 63)                                   *)
Content(i) ==
    /\ Running(i)
    /\ pc[i] = "content"
    /\ \/ Goes(i, "src_close")
       \/ \E e \in EngineErrors : Pending(i, e, "src_close")
    /\ waited' = [waited EXCEPT ![i] = "none"]
    /\ UNCHANGED <<elsewhere, config, session, attempt, title, pages, ui>>

(* finally: await src.close() (lines 150-151), then the pending exception  *)
(* reaches the handler.                                                    *)
CloseSrc(i) ==
    /\ Running(i)
    /\ pc[i] = "src_close"
    /\ pages' = [pages EXCEPT ![i].src = @ - 1]
    /\ IF exc[i] = "none" THEN Goes(i, "proc_new") ELSE Except(i, exc[i], fs)
    /\ UNCHANGED <<elsewhere, config, session, attempt, title, ui, waited>>

(* _readerize_in_sandbox: proc = await ctx.new_page() (line 72)            *)
NewProcPage(i) ==
    /\ Running(i)
    /\ pc[i] = "proc_new"
    /\ \/ /\ Goes(i, "proc_init")
          /\ pages' = [pages EXCEPT ![i].proc = @ + 1]
       \/ /\ \E e \in EngineErrors : Except(i, e, fs)
          /\ UNCHANGED pages
    /\ UNCHANGED <<elsewhere, config, session, attempt, title, ui, waited>>

(* An operation of _readerize_in_sandbox on the sandbox page: no "finally" *)
(* covers it, so a raise reaches the handler with the page still open.     *)
ProcStep(i, from, to) ==
    /\ Running(i)
    /\ pc[i] = from
    /\ \/ Goes(i, to)
       \/ \E e \in EngineErrors : Except(i, e, fs)
    /\ UNCHANGED <<elsewhere, config, session, attempt, title, pages, ui, waited>>

(* A variant used to test the properties below: the sandbox set up        *)
(* without the injection of the extraction script.                         *)
ProcInit_skips_inject(i) == ProcStep(i, "proc_init", "extract")

(* await proc.set_content(blank document) (line 73)                        *)
ProcInit(i) == ProcStep(i, "proc_init", "inject")

(* await proc.add_script_tag(content=load_readability_js()) (line 74)      *)
Inject(i) == ProcStep(i, "inject", "extract")

(* What the extraction script hands back: an article with content, an     *)
(* article whose content is empty, or null (parse() found nothing, or it   *)
(* threw and the script's catch returned null).                            *)
Articles == {"content", "empty", "null"}

(* article = await proc.evaluate(...) (lines 76-85), then                  *)
(* "if article and article.get('content')" (line 87): with content the     *)
(* article is rendered, without it the sandbox page is printed as it is;   *)
(* or the evaluation itself raises.                                        *)
Extract(i) ==
    /\ Running(i)
    /\ pc[i] = "extract"
    /\ \/ \E a \in Articles :
             /\ article' = [article EXCEPT ![i] = a]
             /\ pc' = [pc EXCEPT ![i] = IF a = "content" THEN "render" ELSE "pdf"]
             /\ UNCHANGED <<fs, results, exc, sleeps, sem, event_q, emitted>>
       \/ \E e \in EngineErrors : Except(i, e, fs)
    /\ UNCHANGED <<elsewhere, config, session, attempt, title, pages, ui, waited>>

(* await proc.set_content(clean, wait_until="load") (line 93)              *)
Render(i) == ProcStep(i, "render", "eager")

(* await proc.evaluate(image loading script) (lines 96-126)                *)
Eager(i) == ProcStep(i, "eager", "idle2")

(* wait_for_load_state("networkidle") (lines 129-132), as in the fetch     *)
WaitIdle2(i) ==
    /\ Running(i)
    /\ pc[i] = "idle2"
    /\ \/ /\ Goes(i, "pdf")
          /\ \E w \in {"idle", "timed_out"} : waited' = [waited EXCEPT ![i] = w]
       \/ /\ \E e \in EngineErrors : Except(i, e, fs)
          /\ UNCHANGED waited
    /\ UNCHANGED <<elsewhere, config, session, attempt, title, pages, ui>>

(* render_url_to_pdf_async: await proc.pdf(path=str(pdf_path), ...)        *)
(* (lines 155-161), inside "try ... finally: await proc.close()". The      *)
(* engine renders the document and the file is then written at pdf_path;   *)
(* the call returns when the write has completed. Here the rendering       *)
(* raises, or the write begins (the file is created or truncated).         *)
Pdf(i) ==
    /\ Running(i)
    /\ pc[i] = "pdf"
    /\ \/ /\ fs' = Put(fs, temp_pdf_path(urls[i]),
                       [writer |-> i, att |-> attempt[i], complete |-> FALSE])
          /\ pc' = [pc EXCEPT ![i] = "pdf_write"]
          /\ UNCHANGED <<results, exc, sleeps, sem, event_q, emitted, article>>
       \/ \E e \in EngineErrors : Pending(i, e, "proc_close")
    /\ waited' = [waited EXCEPT ![i] = "none"]
    /\ UNCHANGED <<elsewhere, config, session, attempt, title, pages, ui>>

(* The write of proc.pdf ends: the file this attempt opened, under         *)
(* whatever name it has by now, is complete; or the write raises and the   *)
(* file stays as far as it was written.                                    *)
PdfWrite(i) ==
    /\ Running(i)
    /\ pc[i] = "pdf_write"
    /\ \/ /\ fs' = [n \in DOMAIN fs |->
                      IF fs[n].writer = i /\ fs[n].att = attempt[i]
                      THEN [fs[n] EXCEPT !.complete = TRUE] ELSE fs[n]]
          /\ pc' = [pc EXCEPT ![i] = "proc_close"]
          /\ UNCHANGED <<results, exc, sleeps, sem, event_q, emitted, article>>
       \/ \E e \in EngineErrors : Pending(i, e, "proc_close")
    /\ UNCHANGED <<elsewhere, config, session, attempt, title, pages, ui, waited>>

(* finally: await proc.close() (lines 162-163)                             *)
CloseProc(i) ==
    /\ Running(i)
    /\ pc[i] = "proc_close"
    /\ pages' = [pages EXCEPT ![i].proc = @ - 1]
    /\ IF exc[i] = "none" THEN Goes(i, "title_new") ELSE Except(i, exc[i], fs)
    /\ UNCHANGED <<elsewhere, config, session, attempt, title, ui, waited>>

(***************************************************************************)
(* get_page_title (lines 46-57): "except Exception: return 'untitled'",    *)
(* from wherever in it the exception was raised.                           *)
(***************************************************************************)
TitleRaises(i) ==
    /\ title' = [title EXCEPT ![i] = UNTITLED]
    /\ Goes(i, "finalize")

(* page = await ctx.new_page() (line 51)                                   *)
TitleNew(i) ==
    /\ Running(i)
    /\ pc[i] = "title_new"
    /\ \/ /\ pages' = [pages EXCEPT ![i].ttl = @ + 1]
          /\ Goes(i, "title_goto")
          /\ UNCHANGED title
       \/ /\ TitleRaises(i)
          /\ UNCHANGED pages
    /\ UNCHANGED <<elsewhere, config, session, attempt, ui, waited>>

(* await page.goto(url, timeout=30000) (line 52)                           *)
TitleGoto(i) ==
    /\ Running(i)
    /\ pc[i] = "title_goto"
    /\ \/ /\ Goes(i, "title_read")
          /\ UNCHANGED title
       \/ TitleRaises(i)
    /\ UNCHANGED <<elsewhere, config, session, attempt, pages, ui, waited>>

(* title = await page.title() (line 53)                                    *)
TitleRead(i) ==
    /\ Running(i)
    /\ pc[i] = "title_read"
    /\ \/ /\ \E t \in PageTitles : title' = [title EXCEPT ![i] = t]
          /\ Goes(i, "title_close")
       \/ TitleRaises(i)
    /\ UNCHANGED <<elsewhere, config, session, attempt, pages, ui, waited>>

(* await page.close(); return title.strip() if title else "untitled"       *)
(* (lines 54-55)                                                           *)
TitleClose(i) ==
    /\ Running(i)
    /\ pc[i] = "title_close"
    /\ pages' = [pages EXCEPT ![i].ttl = @ - 1]
    /\ title' = [title EXCEPT ![i] = IF @ # <<>> THEN strip(@) ELSE UNTITLED]
    /\ Goes(i, "finalize")
    /\ UNCHANGED <<elsewhere, config, session, attempt, ui, waited>>

(* Lines 85-99, which hold no await that suspends: the safe title, the     *)
(* collision loop, os.rename, the ok event, and the return that leaves     *)
(* the semaphore block. os.rename raises FileNotFoundError when the        *)
(* temporary file is not there, and the handler runs.                      *)
Finalize(i) ==
    /\ Running(i)
    /\ pc[i] = "finalize"
    /\ title' = [title EXCEPT ![i] = <<>>]
    /\ \E safe_title \in {sanitize_filename(title[i])} :
       \E final \in {final_pdf_path(DOMAIN fs, safe_title)} :
           IF temp_pdf_path(urls[i]) \in DOMAIN fs
           THEN /\ fs' = Put(Remove(fs, temp_pdf_path(urls[i])), final,
                             fs[temp_pdf_path(urls[i])])
                /\ event_q' = Append(event_q, Event("ok", urls[i], final))
                /\ emitted' = Append(emitted, [worker |-> i, status |-> "ok",
                                               url |-> urls[i], detail |-> final])
                /\ results' = [results EXCEPT ![i] = Append(@, "ok")]
                /\ sem' = sem + 1
                /\ pc' = [pc EXCEPT ![i] = "done"]
                /\ article' = [article EXCEPT ![i] = "none"]
                /\ UNCHANGED <<exc, sleeps>>
           ELSE Except(i, "FileNotFoundError", fs)
    /\ UNCHANGED <<elsewhere, config, session, attempt, pages, ui, waited>>

(* A variant used to test the properties below: the sleep that ends        *)
(* without the permit being given back.                                    *)
Sleep_keeps_permit(i) ==
    /\ Running(i)
    /\ pc[i] = "sleep"
    /\ attempt' = [attempt EXCEPT ![i] = @ + 1]
    /\ pc' = [pc EXCEPT ![i] = "acquire"]
    /\ UNCHANGED <<elsewhere, config, session, sem, exc, title, pages, fs, event_q, ui, sleeps,
                   results, emitted, article, waited>>

(* await asyncio.sleep(min(2 * attempt, 5)) returns (line 106): the        *)
(* semaphore block is left, which releases the permit, and the loop        *)
(* starts over: attempt += 1; async with sem (lines 76-78).                *)
Sleep(i) ==
    /\ Running(i)
    /\ pc[i] = "sleep"
    /\ sem' = sem + 1
    /\ attempt' = [attempt EXCEPT ![i] = @ + 1]
    /\ pc' = [pc EXCEPT ![i] = "acquire"]
    /\ UNCHANGED <<elsewhere, config, session, exc, title, pages, fs, event_q, ui, sleeps,
                   results, emitted, article, waited>>

(***************************************************************************)
(* ui_loop (lines 220-244): one event per iteration while                  *)
(* completed < total.                                                      *)
(***************************************************************************)
(* A variant used to test the properties below: the consumer that takes   *)
(* the newest event of the queue.                                          *)
UiGet_takes_newest ==
    /\ main = "gather"
    /\ completed < Len(urls)
    /\ event_q # <<>>
    /\ event_q' = SubSeq(event_q, 1, Len(event_q) - 1)
    /\ completed' = completed + 1
    /\ processed_lines' = Append(processed_lines, line(event_q[Len(event_q)]))
    /\ UNCHANGED <<elsewhere, config, session, sem, pc, attempt, exc, title, pages, fs, sleeps,
                   results, emitted, article, waited>>

UiGet ==
    /\ main = "gather"
    /\ completed < Len(urls)
    /\ event_q # <<>>
    /\ event_q' = Tail(event_q)
    /\ completed' = completed + 1
    /\ processed_lines' = Append(processed_lines, line(Head(event_q)))
    /\ UNCHANGED <<elsewhere, config, session, sem, pc, attempt, exc, title, pages, fs, sleeps,
                   results, emitted, article, waited>>

(***************************************************************************)
(* _run_async (lines 150-249) and close_browser                            *)
(***************************************************************************)
(* browser, ctx = await launch_browser(); sem = Semaphore(max(1, c));      *)
(* ui_loop and the workers are handed to asyncio.gather, which starts      *)
(* them in list order, each running up to its first await that suspends    *)
(* before anything else happens: every worker sets attempt to 1, the       *)
(* first max(1, c) of the list take a permit and call ctx.new_page(), the  *)
(* others are suspended in sem.acquire(). A launch that raises ends the    *)
(* run: it is outside the try.                                             *)
Launch ==
    /\ main = "launch"
    /\ \/ /\ main' = "gather"
          /\ browser_open' = TRUE
          /\ ctx_open' = TRUE
          /\ sem' = permits(max_concurrency) - Min(Len(urls), permits(max_concurrency))
          /\ attempt' = [i \in Workers |-> 1]
          /\ pc' = [i \in Workers |->
                      IF i <= permits(max_concurrency) THEN "src_new" ELSE "acquire"]
       \/ /\ main' = "launch_error"
          /\ UNCHANGED <<browser_open, ctx_open, sem, attempt, pc>>
    /\ UNCHANGED <<elsewhere, config, exc, title, pages, fs, event_q, ui, sleeps, results,
                   emitted, article, waited>>

(* gather returns when ui_loop and every worker have returned.             *)
GatherDone ==
    /\ main = "gather"
    /\ completed >= Len(urls)
    /\ \A i \in Workers : pc[i] = "done"
    /\ main' = "close_ctx"
    /\ UNCHANGED <<elsewhere, config, browser_open, ctx_open, sem, pc, attempt, exc, title,
                   pages, fs, event_q, ui, sleeps, results, emitted, article, waited>>

(* close_browser: await ctx.close() (line 44)                              *)
CloseCtx ==
    /\ main = "close_ctx"
    /\ ctx_open' = FALSE
    /\ main' = "close_browser"
    /\ UNCHANGED <<elsewhere, config, browser_open, sem, pc, attempt, exc, title, pages, fs,
                   event_q, ui, sleeps, results, emitted, article, waited>>

(* finally: await browser.close(); await p.stop() (lines 45-50)            *)
CloseBrowser ==
    /\ main = "close_browser"
    /\ browser_open' = FALSE
    /\ main' = "closed"
    /\ UNCHANGED <<elsewhere, config, ctx_open, sem, pc, attempt, exc, title, pages, fs,
                   event_q, ui, sleeps, results, emitted, article, waited>>

Next ==
    \/ Launch
    \/ \E i \in Workers : Acquire(i)
    \/ \E i \in Workers : NewSrcPage(i)
    \/ \E i \in Workers : Goto(i)
    \/ \E i \in Workers : WaitIdle(i)
    \/ \E i \in Workers : Content(i)
    \/ \E i \in Workers : CloseSrc(i)
    \/ \E i \in Workers : NewProcPage(i)
    \/ \E i \in Workers : ProcInit(i)
    \/ \E i \in Workers : Inject(i)
    \/ \E i \in Workers : Extract(i)
    \/ \E i \in Workers : Render(i)
    \/ \E i \in Workers : Eager(i)
    \/ \E i \in Workers : WaitIdle2(i)
    \/ \E i \in Workers : Pdf(i)
    \/ \E i \in Workers : PdfWrite(i)
    \/ \E i \in Workers : CloseProc(i)
    \/ \E i \in Workers : TitleNew(i)
    \/ \E i \in Workers : TitleGoto(i)
    \/ \E i \in Workers : TitleRead(i)
    \/ \E i \in Workers : TitleClose(i)
    \/ \E i \in Workers : Finalize(i)
    \/ \E i \in Workers : Sleep(i)
    \/ UiGet
    \/ GatherDone
    \/ CloseCtx
    \/ CloseBrowser

Spec == Init /\ [][Next]_vars

(* A file that was in out_dir before the run.                              *)
Present == [writer |-> 0, att |-> 0, complete |-> TRUE]

(* Runs of three distinct addresses with one permit and no retry, into a   *)
(* directory that holds untitled.pdf already.                              *)
InitThree ==
    /\ urls = <<"a", "b", "c">>
    /\ max_concurrency = 1
    /\ retries = 0
    /\ fs = [n \in {"untitled.pdf"} |-> Present]
    /\ Fresh
    /\ sync = NotCalled
    /\ collector = NoCollector

SpecThree == InitThree /\ [][Next]_vars

(* Runs with --max-concurrency 0 or negative (the option, lines 123-125,   *)
(* puts no minimum on the value).                                          *)
InitNonPositive ==
    InitWith({read_url_lines(f) : f \in UrlFiles}, {0 - 1, 0}, 0 .. MaxRetries)

(* The event loop runs a task that is ready whenever there is one, and     *)
(* every engine operation a task awaits eventually returns or raises.      *)
LiveSpec == Init /\ [][Next]_vars /\ WF_vars(Next)

LiveNonPositive == InitNonPositive /\ [][Next]_vars /\ WF_vars(Next)

(***************************************************************************)
(* browser.py: render_url_to_pdf(url, pdf_path, timeout_s), the            *)
(* synchronous variant for one address. It shares nothing with the         *)
(* pipeline above.                                                         *)
(***************************************************************************)
(* A call of render_url_to_pdf: the address, and whether a file is at      *)
(* pdf_path already.                                                       *)
Called(u, f) == [NotCalled EXCEPT !.pc = "enter", !.url = u, !.file = f]

InitSync ==
    /\ urls = << >>
    /\ max_concurrency = 1
    /\ retries = 0
    /\ fs = << >>
    /\ Fresh
    /\ sync \in {Called(u, f) : u \in Addresses, f \in {"absent", "present"}}
    /\ collector = NoCollector

(* The call goes on to its next statement.                                 *)
SyncGoes(to) == sync' = [sync EXCEPT !.pc = to]

(* A statement raises: the exception is pending while the finally blocks   *)
(* and the exit of the with block run.                                     *)
SyncRaises(e, to) == sync' = [sync EXCEPT !.pc = to, !.exc = e]

(* with sync_playwright() as p (line 30): the driver is started.           *)
sync_playwright_enter ==
    /\ sync.pc = "enter"
    /\ \/ sync' = [sync EXCEPT !.pc = "launch", !.p = "running"]
       \/ \E e \in EngineErrors : SyncRaises(e, "raised")
    /\ UNCHANGED <<pipeline, collector>>

(* _new_context: browser = play.chromium.launch(headless=True) (line 20)   *)
launch ==
    /\ sync.pc = "launch"
    /\ \/ sync' = [sync EXCEPT !.pc = "new_context", !.browser = "open"]
       \/ \E e \in EngineErrors : SyncRaises(e, "exit")
    /\ UNCHANGED <<pipeline, collector>>

(* _new_context: return browser.new_context(...) (line 21)                 *)
new_context ==
    /\ sync.pc = "new_context"
    /\ \/ sync' = [sync EXCEPT !.pc = "src_new_page", !.ctx = "open"]
       \/ \E e \in EngineErrors : SyncRaises(e, "exit")
    /\ UNCHANGED <<pipeline, collector>>

(* src = ctx.new_page() (line 32), before the first try                    *)
src_new_page ==
    /\ sync.pc = "src_new_page"
    /\ \/ sync' = [sync EXCEPT !.pc = "src_goto", !.src = "open"]
       \/ \E e \in EngineErrors : SyncRaises(e, "exit")
    /\ UNCHANGED <<pipeline, collector>>

(* src.goto(url, wait_until="domcontentloaded", timeout=...) (line 34)     *)
src_goto ==
    /\ sync.pc = "src_goto"
    /\ \/ SyncGoes("src_wait")
       \/ \E e \in NavigationErrors : SyncRaises(e, "src_close")
    /\ UNCHANGED <<pipeline, collector>>

(* src.wait_for_load_state("networkidle") with its PWTimeoutError          *)
(* swallowed (lines 35-38)                                                 *)
src_wait_for_load_state ==
    /\ sync.pc = "src_wait"
    /\ \/ SyncGoes("src_content")
       \/ \E e \in EngineErrors : SyncRaises(e, "src_close")
    /\ UNCHANGED <<pipeline, collector>>

(* html = src.content() (line 41)                                          *)
src_content ==
    /\ sync.pc = "src_content"
    /\ \/ SyncGoes("src_close")
       \/ \E e \in EngineErrors : SyncRaises(e, "src_close")
    /\ UNCHANGED <<pipeline, collector>>

(* finally: src.close() (lines 42-43); a pending exception then leaves     *)
(* the with block: no other handler or finally encloses the first try.     *)
src_close ==
    /\ sync.pc = "src_close"
    /\ sync' = [sync EXCEPT !.src = "closed",
                            !.pc = IF sync.exc = "none" THEN "proc_new_page" ELSE "exit"]
    /\ UNCHANGED <<pipeline, collector>>

(* proc = ctx.new_page() (line 46), before the second try                  *)
proc_new_page ==
    /\ sync.pc = "proc_new_page"
    /\ \/ sync' = [sync EXCEPT !.pc = "proc_set_content", !.proc = "open"]
       \/ \E e \in EngineErrors : SyncRaises(e, "exit")
    /\ UNCHANGED <<pipeline, collector>>

(* A statement of the second try (lines 47-83).                            *)
SyncProcStep(from, to) ==
    /\ sync.pc = from
    /\ \/ SyncGoes(to)
       \/ \E e \in EngineErrors : SyncRaises(e, "proc_close")
    /\ UNCHANGED <<pipeline, collector>>

(* proc.set_content(blank document) (line 49)                              *)
proc_set_content == SyncProcStep("proc_set_content", "proc_add_script_tag")

(* proc.add_script_tag(content=load_readability_js()) (line 51)            *)
proc_add_script_tag == SyncProcStep("proc_add_script_tag", "proc_evaluate")

(* article = proc.evaluate(...) (lines 54-63) and                          *)
(* "if article and article.get('content')" (line 65)                       *)
proc_evaluate ==
    /\ sync.pc = "proc_evaluate"
    /\ \/ \E a \in Articles :
             sync' = [sync EXCEPT !.article = a,
                                  !.pc = IF a = "content" THEN "proc_render" ELSE "proc_pdf"]
       \/ \E e \in EngineErrors : SyncRaises(e, "proc_close")
    /\ UNCHANGED <<pipeline, collector>>

(* proc.set_content(clean, wait_until="load") (line 74)                    *)
proc_render == SyncProcStep("proc_render", "proc_pdf")

(* proc.pdf(path=str(pdf_path), ...) (lines 77-83)                         *)
proc_pdf ==
    /\ sync.pc = "proc_pdf"
    /\ \/ sync' = [sync EXCEPT !.pc = "proc_close", !.file = "written"]
       \/ \E e \in EngineErrors : SyncRaises(e, "proc_close")
    /\ UNCHANGED <<pipeline, collector>>

(* finally: proc.close() (lines 84-85)                                     *)
proc_close ==
    /\ sync.pc = "proc_close"
    /\ sync' = [sync EXCEPT !.pc = "ctx_close", !.proc = "closed"]
    /\ UNCHANGED <<pipeline, collector>>

(* ctx.close() (line 86)                                                   *)
ctx_close ==
    /\ sync.pc = "ctx_close"
    /\ sync' = [sync EXCEPT !.pc = "browser_close", !.ctx = "closed"]
    /\ UNCHANGED <<pipeline, collector>>

(* ctx.browser.close() (line 87)                                           *)
browser_close ==
    /\ sync.pc = "browser_close"
    /\ sync' = [sync EXCEPT !.pc = "exit", !.browser = "closed"]
    /\ UNCHANGED <<pipeline, collector>>

(* The with block of sync_playwright() is left (line 30): the driver is    *)
(* stopped, and the function returns or the pending exception leaves it.   *)
(* No close of a page, of the context or of the browser is called here.    *)
sync_playwright_exit ==
    /\ sync.pc = "exit"
    /\ sync' = [sync EXCEPT !.p = "stopped",
                            !.pc = IF sync.exc = "none" THEN "returned" ELSE "raised"]
    /\ UNCHANGED <<pipeline, collector>>

NextSync ==
    \/ sync_playwright_enter
    \/ launch
    \/ new_context
    \/ src_new_page
    \/ src_goto
    \/ src_wait_for_load_state
    \/ src_content
    \/ src_close
    \/ proc_new_page
    \/ proc_set_content
    \/ proc_add_script_tag
    \/ proc_evaluate
    \/ proc_render
    \/ proc_pdf
    \/ proc_close
    \/ ctx_close
    \/ browser_close
    \/ sync_playwright_exit

SpecSync == InitSync /\ [][NextSync]_vars

(***************************************************************************)
(* collector.py: LinkCollector.collect_links and its site tasks. It        *)
(* shares nothing with the pipeline above.                                 *)
(***************************************************************************)
max_concurrent_pages == 5
max_concurrent_sites == 3
max_clicks == 20
limit_click_count == 3
max_pages == 100
batch_size == max_concurrent_pages

(* The most links a domain offers in the runs of several sites, and in the *)
(* runs of one site; the most clicks of a run that the model lets go       *)
(* uncounted.                                                              *)
MaxLinks == 2
WalkLinks == 21
MaxUncounted == 1

(* Network locations, as their sequences of labels.                        *)
asec_ahnlab_com == <<"asec", "ahnlab", "com">>
www_fortinet_com == <<"www", "fortinet", "com">>
fortinet_com == <<"fortinet", "com">>
research_checkpoint_com == <<"research", "checkpoint", "com">>
checkpoint_com == <<"checkpoint", "com">>
thedfirreport_com == <<"thedfirreport", "com">>

(* A base URL and a link, by urlparse(...).netloc and the rest.            *)
BaseUrl(netloc, path) == [netloc |-> netloc, path |-> path]
Link(netloc, n) == [netloc |-> netloc, n |-> n]

(* "a in b" of two network locations (a run of labels of b).               *)
IsIn(a, b) == \E k \in 0 .. (Len(b) - Len(a)) : SubSeq(b, k + 1, k + Len(a)) = a

(* domain_mapping (lines 95-102), in the order of its keys                 *)
domain_mapping ==
    << [key |-> asec_ahnlab_com, allowed |-> {asec_ahnlab_com}],
       [key |-> www_fortinet_com, allowed |-> {www_fortinet_com, fortinet_com}],
       [key |-> fortinet_com, allowed |-> {www_fortinet_com, fortinet_com}],
       [key |-> research_checkpoint_com, allowed |-> {research_checkpoint_com}],
       [key |-> checkpoint_com, allowed |-> {research_checkpoint_com, checkpoint_com}],
       [key |-> thedfirreport_com, allowed |-> {thedfirreport_com}] >>

(* _is_link_from_domain (lines 89-111): the first key of domain_mapping    *)
(* that is in expected_domain decides; without one, equality or            *)
(* containment either way.                                                 *)
is_link_from_domain(link, expected_domain) ==
    LET hits == {k \in 1 .. Len(domain_mapping) :
                    IsIn(domain_mapping[k].key, expected_domain)}
    IN  IF hits # {}
        THEN link.netloc \in domain_mapping[CHOOSE k \in hits : \A j \in hits : k <= j].allowed
        ELSE \/ expected_domain = link.netloc
             \/ IsIn(expected_domain, link.netloc)
             \/ IsIn(link.netloc, expected_domain)

(* The base URLs of the runs: two listings of one domain, one of another.  *)
A1 == BaseUrl(fortinet_com, "blog")
A2 == BaseUrl(fortinet_com, "news")
B1 == BaseUrl(thedfirreport_com, "reports")

(* A site task before _process_site_with_semaphore has run.                *)
NewSite ==
    [pc |-> "waiting", initial_collected_links |-> {}, site_type |-> "none",
     click_count |-> 0, consecutive_no_new |-> 0, page_num |-> 0,
     batch_pages |-> {}, uncounted |-> 0]

(* LinkCollector() (lines 11-17) with base_url.txt read (lines 113-121),   *)
(* and the web it will meet: how many links a domain offers and which      *)
(* base URLs show a load-more button.                                      *)
NewCollector(base_urls, supply, buttons) ==
    [main |-> "start", base_urls |-> base_urls, supply |-> supply, buttons |-> buttons,
     collected_links |-> {}, links_by_source |-> << >>, semaphore |-> 0,
     site |-> [i \in 1 .. Len(base_urls) |-> NewSite], first |-> << >>]

InitCollector ==
    /\ urls = << >>
    /\ max_concurrency = 1
    /\ retries = 0
    /\ fs = << >>
    /\ Fresh
    /\ sync = NotCalled
    /\ collector \in
          {NewCollector(<< >>, 0, {})}
          \cup {NewCollector(<<A1>>, WalkLinks, b) : b \in SUBSET {A1}}
          \cup {NewCollector(l, n, b) :
                   l \in {<<A1, A2>>, <<A1, B1>>}, n \in 1 .. MaxLinks, b \in SUBSET {A1, A2}}
          \cup {NewCollector(<<A1, B1, A2, B1>>, 1, {})}

Sites == 1 .. Len(collector.base_urls)

(* What _extract_links hands back for a page of the site: nothing (also    *)
(* when it raised), a link that is collected already, or a link of the     *)
(* site's domain that is not: the links of a domain are numbered in the    *)
(* order of their discovery. The links _extract_links keeps are of the     *)
(* page's domain, or of one that contains it or is contained in it (lines  *)
(* 463-469); here they are of the page's own.                              *)
Yields(c, i) ==
    LET d == c.base_urls[i].netloc
        fresh == {n \in 1 .. c.supply : Link(d, n) \notin c.collected_links}
    IN  {{}} \cup {{l} : l \in {l \in c.collected_links : l.netloc = d}}
             \cup {{Link(d, n)} : n \in {n \in fresh : \A m \in fresh : n <= m}}

(* self.collected_links.update(new_links), with the history of who added   *)
(* a link first.                                                           *)
Collect(c, i, new_links) ==
    [c EXCEPT !.collected_links = @ \cup new_links,
              !.first = [l \in DOMAIN @ \cup new_links |->
                            IF l \in DOMAIN @ THEN @[l] ELSE i]]

(* _process_single_site after the walk (lines 73-87): every link of        *)
(* collected_links that was not there at the task's start and is of the    *)
(* base URL's domain goes to links_by_source[base_url]; the task ends and  *)
(* its "async with semaphore" is left.                                     *)
Attribute(c, i) ==
    [c EXCEPT !.links_by_source =
                  Put(@, c.base_urls[i],
                      {l \in c.collected_links \ c.site[i].initial_collected_links :
                          is_link_from_domain(l, c.base_urls[i].netloc)}),
              !.semaphore = @ + 1,
              !.site[i].pc = "done"]

(* An exception leaves the site task: the semaphore block is left, and     *)
(* the exception is on its way to gather.                                  *)
SiteRaises(c, i) == [c EXCEPT !.semaphore = @ + 1, !.site[i].pc = "raised"]

(* collect_links (lines 19-43): nothing to do without base URLs; else the  *)
(* browser is launched and gather starts the site tasks in list order,     *)
(* each running up to its first await that suspends: the first             *)
(* max_concurrent_sites take a permit and the snapshot                     *)
(* initial_collected_links (line 65), the others wait for a permit.        *)
collect_links ==
    /\ collector.main = "start"
    /\ IF collector.base_urls = << >>
       THEN collector' = [collector EXCEPT !.main = "returned"]
       ELSE \/ collector' = [collector EXCEPT !.main = "raised"]
            \/ collector' =
                  [collector EXCEPT
                     !.main = "gather",
                     !.semaphore = max_concurrent_sites
                                     - Min(Len(collector.base_urls), max_concurrent_sites),
                     !.site = [i \in Sites |->
                                 IF i <= max_concurrent_sites
                                 THEN [NewSite EXCEPT !.pc = "detect"]
                                 ELSE NewSite]]
    /\ UNCHANGED <<pipeline, sync>>

SiteRuns(i) == collector.main = "gather" /\ i \in Sites

(* _process_site_with_semaphore (lines 56-59) of a task that had to wait:  *)
(* it gets a permit, and _process_single_site takes its snapshot of        *)
(* collected_links (line 65).                                              *)
process_site_with_semaphore(i) ==
    /\ SiteRuns(i)
    /\ collector.site[i].pc = "waiting"
    /\ collector.semaphore > 0
    /\ collector' = [collector EXCEPT
                       !.semaphore = @ - 1,
                       !.site[i].pc = "detect",
                       !.site[i].initial_collected_links = collector.collected_links]
    /\ UNCHANGED <<pipeline, sync>>

(* _detect_site_type (lines 123-156): 'load_more' when a visible button    *)
(* with such a text is found, 'pagination' otherwise and on any            *)
(* exception; new_page (line 125) is outside the try.                      *)
detect_site_type(i) ==
    /\ SiteRuns(i)
    /\ collector.site[i].pc = "detect"
    /\ \/ collector' = SiteRaises(collector, i)
       \/ \E t \in (IF collector.base_urls[i] \in collector.buttons
                    THEN {"load_more", "pagination"} ELSE {"pagination"}) :
             collector' = [collector EXCEPT !.site[i].site_type = t,
                                            !.site[i].pc = t]
    /\ UNCHANGED <<pipeline, sync>>

(* Whether the loop of the load-more walk goes on (line 181).              *)
clicking(site) ==
    site.click_count < max_clicks /\ site.consecutive_no_new < limit_click_count

(* _collect_load_more_site up to its loop (lines 158-179): new_page        *)
(* (line 160) is outside the try; a raise of goto or of the wait is        *)
(* caught (return 0 after the finally); else the links of the initial      *)
(* page are collected.                                                     *)
collect_load_more_site(i) ==
    /\ SiteRuns(i)
    /\ collector.site[i].pc = "load_more"
    /\ \/ collector' = SiteRaises(collector, i)
       \/ collector' = [collector EXCEPT !.site[i].pc = "page_close"]
       \/ \E initial_links \in Yields(collector, i) :
             collector' =
                [Collect(collector, i, initial_links \ collector.collected_links)
                   EXCEPT !.site[i].pc = "click"]
    /\ UNCHANGED <<pipeline, sync>>

(* One iteration of the loop (lines 181-221). Of the six button patterns   *)
(* in turn the first visible button is clicked; the click is counted when  *)
(* button.click() and the wait after it have returned, and a raise of      *)
(* either goes on to the next pattern (except Exception: continue), the    *)
(* click made or not. Without a counted click the loop is left. After a    *)
(* counted click the links are extracted; new ones are collected and       *)
(* reset consecutive_no_new, none adds one to it. The loop is left when    *)
(* its condition no longer holds.                                          *)
load_more_click(i) ==
    /\ SiteRuns(i)
    /\ collector.site[i].pc = "click"
    /\ \E u \in 0 .. Min(5, MaxUncounted - collector.site[i].uncounted) :
          \/ collector' = [collector EXCEPT !.site[i].uncounted = @ + u,
                                            !.site[i].pc = "page_close"]
          \/ \E links \in Yields(collector, i) :
                LET new_links == links \ collector.collected_links
                    after == [collector.site[i] EXCEPT
                                !.uncounted = @ + u,
                                !.click_count = @ + 1,
                                !.consecutive_no_new = IF new_links # {} THEN 0 ELSE @ + 1]
                IN  collector' =
                       [Collect(collector, i, new_links) EXCEPT
                          !.site[i] = [after EXCEPT
                                         !.pc = IF clicking(after) THEN "click"
                                                ELSE "page_close"]]
    /\ UNCHANGED <<pipeline, sync>>

(* finally: await page.close() (lines 229-230), then the attribution.      *)
load_more_return(i) ==
    /\ SiteRuns(i)
    /\ collector.site[i].pc = "page_close"
    /\ collector' = Attribute(collector, i)
    /\ UNCHANGED <<pipeline, sync>>

(* _collect_paginated_site_parallel up to its loop (lines 232-247): the    *)
(* first page; without links the walk returns 0 and the attribution        *)
(* follows with no await in between. new_page (line 300) is outside the    *)
(* try of _extract_links_from_single_page.                                 *)
first_page(i) ==
    /\ SiteRuns(i)
    /\ collector.site[i].pc = "pagination"
    /\ \/ collector' = SiteRaises(collector, i)
       \/ \E first_page_links \in Yields(collector, i) :
             IF first_page_links = {}
             THEN collector' = Attribute(collector, i)
             ELSE collector' =
                     [Collect(collector, i, first_page_links \ collector.collected_links)
                        EXCEPT !.site[i].page_num = 2, !.site[i].pc = "batch"]
    /\ UNCHANGED <<pipeline, sync>>

(* One iteration of the loop (lines 253-289): the pages page_num to        *)
(* min(page_num + batch_size, max_pages + 1) - 1 are requested together    *)
(* (gather); their new links are collected; a batch without a new link     *)
(* ends the walk, else page_num += batch_size and the loop is left when    *)
(* page_num > max_pages. The attribution follows with no await in          *)
(* between.                                                                *)
batch(i) ==
    /\ SiteRuns(i)
    /\ collector.site[i].pc = "batch"
    /\ LET page_num == collector.site[i].page_num
           batch_pages == page_num .. (Min(page_num + batch_size, max_pages + 1) - 1)
       IN  \/ collector' = [SiteRaises(collector, i) EXCEPT !.site[i].batch_pages = batch_pages]
           \/ \E links \in Yields(collector, i) :
                 LET new_links == links \ collector.collected_links
                     c == [Collect(collector, i, new_links) EXCEPT
                             !.site[i].batch_pages = batch_pages]
                 IN  IF new_links = {}
                     THEN collector' = Attribute(c, i)
                     ELSE IF page_num + batch_size > max_pages
                     THEN collector' = Attribute([c EXCEPT !.site[i].page_num = @ + batch_size], i)
                     ELSE collector' = [c EXCEPT !.site[i].page_num = @ + batch_size]
    /\ UNCHANGED <<pipeline, sync>>

(* await asyncio.gather of the tasks returns (line 43): every task has      *)
(* ended.                                                                  *)
gather_returns ==
    /\ collector.main = "gather"
    /\ \A i \in Sites : collector.site[i].pc = "done"
    /\ collector' = [collector EXCEPT !.main = "close"]
    /\ UNCHANGED <<pipeline, sync>>

(* gather raises the exception of a task: the finally closes context and   *)
(* browser and the exception leaves collect_links; nothing is saved.       *)
gather_raises ==
    /\ collector.main = "gather"
    /\ \E i \in Sites : collector.site[i].pc = "raised"
    /\ collector' = [collector EXCEPT !.main = "raised"]
    /\ UNCHANGED <<pipeline, sync>>

(* finally: close context and browser (lines 47-49), then                  *)
(* _save_urls_by_section and _summarize_links (lines 51-54).               *)
save_urls_by_section ==
    /\ collector.main = "close"
    /\ collector' = [collector EXCEPT !.main = "saved"]
    /\ UNCHANGED <<pipeline, sync>>

NextCollector ==
    \/ collect_links
    \/ \E i \in Sites : process_site_with_semaphore(i)
    \/ \E i \in Sites : detect_site_type(i)
    \/ \E i \in Sites : collect_load_more_site(i)
    \/ \E i \in Sites : load_more_click(i)
    \/ \E i \in Sites : load_more_return(i)
    \/ \E i \in Sites : first_page(i)
    \/ \E i \in Sites : batch(i)
    \/ gather_returns
    \/ gather_raises
    \/ save_urls_by_section

SpecCollector == InitCollector /\ [][NextCollector]_vars

(* The event loop runs a site task that is ready, and every page          *)
(* operation a task awaits returns or raises.                              *)
LiveCollector == InitCollector /\ [][NextCollector]_vars /\ WF_vars(NextCollector)

(***************************************************************************)
(* Properties.                                                             *)
(***************************************************************************)
PastAdmission == {i \in Workers : pc[i] \in Guarded}

EventsOf(i) == {k \in 1 .. Len(emitted) : emitted[k].worker = i}

EventsFor(u) == {k \in 1 .. Len(emitted) : emitted[k].url = u}

AllTerminated == main # "launch" /\ \A i \in Workers : pc[i] = "done"

NoDuplicates == \A i, j \in Workers : urls[i] = urls[j] => i = j

Range(s) == {s[k] : k \in 1 .. Len(s)}

(* C1 as stated: once all workers have terminated, the number of           *)
(* TerminalEvents equals the number of distinct submitted addresses, and   *)
(* no address ever has more than one TerminalEvent.                        *)
C1_Original ==
    /\ AllTerminated => Len(emitted) = Cardinality({urls[i] : i \in Workers})
    /\ \A u \in Addresses : Cardinality(EventsFor(u)) <= 1

(* C1 amended: once all workers have terminated, the number of             *)
(* TerminalEvents equals the number of entries of the address list, one    *)
(* per worker, however many attempts each took; no worker ever has more    *)
(* than one, and a worker has one exactly when it has terminated. The      *)
(* count is the number of distinct addresses when no address is listed     *)
(* twice.                                                                  *)
C1_OneEventPerEntry ==
    /\ AllTerminated => Len(emitted) = Len(urls)
    /\ \A i \in Workers : Cardinality(EventsOf(i)) = (IF pc[i] = "done" THEN 1 ELSE 0)
    /\ (AllTerminated /\ NoDuplicates) =>
           /\ Len(emitted) = Cardinality({urls[i] : i \in Workers})
           /\ \A u \in Addresses : Cardinality(EventsFor(u)) <= 1

(* Two workers have terminated, one of them after a retry.                 *)
C1_Witness ==
    /\ AllTerminated
    /\ Len(urls) = 2
    /\ Len(emitted) = 2
    /\ \E i \in Workers : attempt[i] >= 2

(* C2 as stated: the workers past the admission point never outnumber     *)
(* the configured concurrency.                                             *)
C2_Original == Cardinality(PastAdmission) <= max_concurrency

(* C2 amended: the workers past the admission point (inside the           *)
(* semaphore block, in any stage or in backoff sleep) never outnumber      *)
(* max(1, C), C the configured concurrency.                                *)
C2_AdmissionBound ==
    Cardinality(PastAdmission) <= (IF max_concurrency >= 1 THEN max_concurrency ELSE 1)

(* Every permit is taken and another worker is waiting for one.            *)
C2_Witness ==
    \E i, j \in Workers :
        /\ pc[i] \in Guarded
        /\ pc[j] = "acquire"
        /\ sem = 0
        /\ Cardinality(PastAdmission) = (IF max_concurrency >= 1 THEN max_concurrency ELSE 1)

(* C3 as stated: the permit, once acquired, is given back only when the    *)
(* worker emits its TerminalEvent.                                         *)
C3_Original ==
    [][\A i \in Workers :
          (pc[i] \in Guarded /\ pc'[i] \notin Guarded) => pc'[i] = "done"]_vars

(* C3 amended: a worker acquires a permit before each attempt, keeps it    *)
(* through every stage of that attempt and through the backoff sleep that  *)
(* follows a failed attempt, and gives it back when that sleep ends or     *)
(* when it has emitted its TerminalEvent; it holds no permit between the   *)
(* end of a sleep and the start of the retry.                              *)
C3_PermitPerAttempt ==
    [][\A i \in Workers :
          /\ (pc[i] = "acquire" /\ pc'[i] \in Guarded) => sem' = sem - 1
          /\ (pc[i] = "start" /\ pc'[i] \in Guarded) =>
                 Cardinality(PastAdmission') + sem' = Max(1, max_concurrency)
          /\ (pc[i] \in Guarded /\ pc'[i] \in Guarded /\ pc'[i] # pc[i]) =>
                 (sem' = sem /\ attempt'[i] = attempt[i])
          /\ (pc[i] \in Guarded /\ pc'[i] \notin Guarded) =>
                 /\ sem' = sem + 1
                 /\ \/ /\ pc[i] = "sleep"
                       /\ pc'[i] = "acquire"
                       /\ attempt'[i] = attempt[i] + 1
                    \/ /\ pc'[i] = "done"
                       /\ Len(emitted') = Len(emitted) + 1]_vars

(* With one permit, a worker is between a failed attempt and its retry     *)
(* while the other worker has been admitted.                               *)
C3_Witness ==
    \E i, j \in Workers :
        /\ max_concurrency <= 1
        /\ pc[i] = "acquire"
        /\ attempt[i] >= 2
        /\ pc[j] \in Guarded
        /\ attempt[j] = 1

OkEvents == {k \in 1 .. Len(emitted) : emitted[k].status = "ok"}

FailEvents == {k \in 1 .. Len(emitted) : emitted[k].status = "fail"}

(* The files a worker's task wrote that stand under another name than its  *)
(* temporary one.                                                          *)
FinalsOf(i) ==
    {n \in DOMAIN fs : fs[n].writer = i /\ n # temp_pdf_path(urls[i])}

(* C4: for every address whose TerminalEvent is ok, from the emission on,  *)
(* exactly one artifact written by that task exists under a final name     *)
(* and its temporary artifact does not exist; and at the end of a run      *)
(* started on an empty directory there are as many files as ok events.     *)
C4_Original ==
    /\ \A k \in OkEvents :
           /\ Cardinality(FinalsOf(emitted[k].worker)) = 1
           /\ temp_pdf_path(emitted[k].url) \notin DOMAIN fs
    /\ AllTerminated => Cardinality(DOMAIN fs) = Cardinality(OkEvents)

(* C4 for address lists without a duplicate.                               *)
C4_Original_distinct == NoDuplicates => C4_Original

(* C5: for every address whose TerminalEvent is fail, from the emission    *)
(* on, no file its task wrote exists in the output directory, under its    *)
(* temporary name or any other.                                            *)
C5_Original ==
    \A k \in FailEvents : \A n \in DOMAIN fs : fs[n].writer # emitted[k].worker

(* C5 restricted to address lists without a duplicate (it holds there).   *)
C5_Original_distinct == NoDuplicates => C5_Original

(* C6: once the Session is open, every entry of the address list           *)
(* eventually has its TerminalEvent, the consumer eventually has consumed  *)
(* all of them, and the run eventually reaches the end of close_browser,   *)
(* whatever the concurrency, the retry limit and the failures of the       *)
(* stages.                                                                 *)
C6_Liveness ==
    (main = "gather") ~>
        (/\ main = "closed"
         /\ ~browser_open /\ ~ctx_open
         /\ \A i \in Workers : Cardinality(EventsOf(i)) = 1
         /\ completed = Len(urls)
         /\ event_q = <<>>)

(* A run of two addresses has closed its Session: every attempt of one     *)
(* address failed, the other address succeeded, both events were consumed. *)
C6_Witness ==
    /\ main = "closed"
    /\ completed = 2
    /\ \E i, j \in Workers :
           /\ "ok" \notin Range(results[i])
           /\ Len(results[i]) >= 2
           /\ "ok" \in Range(results[j])

(* C7: with retry limit R no worker makes more than R + 1 attempts.        *)
C7_Original == \A i \in Workers : attempt[i] <= retries + 1

(* C8: a worker whose first R attempts failed and whose (R+1)-th attempt   *)
(* succeeded has emitted exactly one TerminalEvent, an ok, and has slept   *)
(* exactly R times, the k-th time for min(2k, 5) time units.               *)
C8_RetryThenOk ==
    \A i \in Workers :
        (/\ pc[i] = "done"
         /\ Len(results[i]) = retries + 1
         /\ results[i][retries + 1] = "ok") =>
            /\ Cardinality(EventsOf(i)) = 1
            /\ \A k \in EventsOf(i) : emitted[k].status = "ok"
            /\ Len(sleeps[i]) = retries
            /\ \A k \in 1 .. retries :
                   sleeps[i][k] = (IF 2 * k <= 5 THEN 2 * k ELSE 5)

(* With R = 3 a worker has succeeded at its fourth attempt, after sleeps   *)
(* of 2, 4 and 5.                                                          *)
C8_Witness ==
    \E i \in Workers :
        /\ retries = 3
        /\ pc[i] = "done"
        /\ results[i] = <<"engine", "engine", "engine", "ok">>
        /\ sleeps[i] = <<2, 4, 5>>

(* C9: a worker whose attempt has ended (it sleeps, waits for a permit or  *)
(* has emitted its TerminalEvent) has no open page handle.                 *)
C9_Original ==
    \A i \in Workers : pc[i] \in {"sleep", "acquire", "done"} => pages[i] = NoPages

(* The first half of C10: with distinct addresses, no attempt of a worker  *)
(* ends with an error that is not of its own engine operations (os.rename  *)
(* always finds the temporary file), so a worker's outcome and its number  *)
(* of attempts follow from the results of its own stages alone.            *)
C10_OwnOutcome ==
    NoDuplicates => \A i \in Workers : "os" \notin Range(results[i])

(* C10: with distinct addresses, a worker's outcome and attempts follow    *)
(* from its own stages alone, and the file under a worker's temporary      *)
(* name is never one that another worker's task put there.                 *)
C10_Original ==
    /\ C10_OwnOutcome
    /\ NoDuplicates =>
           \A i \in Workers :
               temp_pdf_path(urls[i]) \in DOMAIN fs =>
                   fs[temp_pdf_path(urls[i])].writer = i

(* The Session is open exactly while the workers run: nothing has started *)
(* before the launch, every worker has terminated before close_browser is  *)
(* entered, and the browser is never closed with its context still open.   *)
C11_SessionOrder ==
    /\ main = "launch" => (~browser_open /\ ~ctx_open /\ \A i \in Workers : pc[i] = "start")
    /\ main = "gather" => (browser_open /\ ctx_open)
    /\ main \in {"close_ctx", "close_browser", "closed"} =>
           \A i \in Workers : pc[i] = "done"
    /\ (main \in {"close_browser", "closed"}) => ~ctx_open
    /\ (main # "launch" /\ ~browser_open) => ~ctx_open

(* C11: the Session is opened before any worker starts and closed after    *)
(* every worker has terminated and every page handle is closed, the        *)
(* context before the browser; no worker acts on a closed Session.         *)
C11_Original ==
    /\ C11_SessionOrder
    /\ main \in {"close_ctx", "close_browser", "closed"} =>
           \A i \in Workers : pages[i] = NoPages

(* The print of the worker's current attempt has succeeded.                *)
Printed(i) ==
    \/ pc[i] \in {"title_new", "title_goto", "title_read", "title_close", "finalize"}
    \/ pc[i] = "proc_close" /\ exc[i] = "none"

(* An attempt whose extraction handed back no content goes on to the       *)
(* print without being counted as failed, and once it has printed it ends  *)
(* with the ok event, without a sleep.                                     *)
NoContentIsNoFailure(i) ==
    /\ (pc[i] = "extract" /\ article'[i] \in {"empty", "null"}) =>
           /\ pc'[i] = "pdf"
           /\ results'[i] = results[i]
           /\ sleeps'[i] = sleeps[i]
    /\ (article[i] \in {"empty", "null"} /\ Printed(i) /\ results'[i] # results[i]) =>
           /\ results'[i] = Append(results[i], "ok")
           /\ sleeps'[i] = sleeps[i]
           /\ pc'[i] = "done"
           /\ Len(emitted') = Len(emitted) + 1
           /\ emitted'[Len(emitted')].worker = i
           /\ emitted'[Len(emitted')].status = "ok"
           /\ emitted'[Len(emitted')].detail \in DOMAIN fs'

(* C12: an attempt whose extraction threw, returned null or returned an    *)
(* article with empty content is not a failed attempt: when fetch and      *)
(* print succeed it produces an artifact and the ok event, with no sleep   *)
(* and no retry.                                                           *)
C12_Original == [][\A i \in Workers : NoContentIsNoFailure(i)]_vars

(* C12 for address lists without a duplicate (it holds there).             *)
C12_Original_distinct ==
    [][NoDuplicates => \A i \in Workers : NoContentIsNoFailure(i)]_vars

(* C13: the final name of a successful address is sha256(url).pdf, a       *)
(* function of the address alone, whatever the order in which the workers  *)
(* finish and whatever titles the pages carry.                             *)
C13_Original ==
    \A k \in OkEvents : emitted[k].detail = sha256_hex(emitted[k].url) \o ".pdf"

(* The names files have been renamed to, and the temporary names.          *)
FinalNames == {emitted[k].detail : k \in OkEvents}

TempNames == {temp_pdf_path(urls[i]) : i \in Workers}

(* C14: no file under a final name is one that a print is still writing   *)
(* or that a failed print left behind: it got there by the rename of a     *)
(* temporary artifact whose print had completed.                           *)
C14_Original ==
    \A n \in DOMAIN fs : (n \in FinalNames \/ n \notin TempNames) => fs[n].complete

(* C14 for address lists without a duplicate.                              *)
C14_Original_distinct == NoDuplicates => C14_Original

(* C14 for address lists without a duplicate and for the names that are no *)
(* worker's temporary name (it holds there).                               *)
C14_Original_untouched ==
    NoDuplicates => \A n \in DOMAIN fs : n \notin TempNames => fs[n].complete

C15_RenameToFreeName ==
    [][/\ Len(emitted') > Len(emitted) =>
             (emitted'[Len(emitted')].status = "ok" =>
                  /\ emitted'[Len(emitted')].detail \notin DOMAIN fs
                  /\ emitted'[Len(emitted')].detail \in DOMAIN fs')
       /\ \A n \in DOMAIN fs :
             n \notin TempNames => (n \in DOMAIN fs' /\ fs'[n].writer = fs[n].writer)]_vars

(* C16: the consumer gets the events in the order in which the workers    *)
(* emitted them, each exactly once: what it has processed, followed by     *)
(* what is in the queue, is what was emitted; and when the run ends the    *)
(* queue is empty and the processed count is the number of addresses.      *)
C16_ConsumedInOrder ==
    /\ completed = Len(processed_lines)
    /\ completed + Len(event_q) = Len(emitted)
    /\ \A k \in 1 .. Len(emitted) :
           LET e == Event(emitted[k].status, emitted[k].url, emitted[k].detail)
           IN  IF k <= completed
               THEN processed_lines[k] = line(e)
               ELSE event_q[k - completed] = e
    /\ main \in {"close_ctx", "close_browser", "closed"} =>
           (event_q = <<>> /\ completed = Len(urls))

(* A run of two distinct addresses has ended; the second address of the    *)
(* list finished first and its event was consumed first.                   *)
C16_Witness ==
    /\ main = "closed"
    /\ Len(urls) = 2
    /\ urls[1] # urls[2]
    /\ completed = 2
    /\ emitted[1].worker = 2
    /\ processed_lines[1] = line(Event(emitted[1].status, urls[2], emitted[1].detail))

(* C17: across all of its attempts a worker holds at most two open page    *)
(* handles at a time, at most one source page and at most one sandbox      *)
(* page.                                                                   *)
C17_Original ==
    \A i \in Workers :
        /\ pages[i].src <= 1
        /\ pages[i].proc <= 1
        /\ pages[i].src + pages[i].proc + pages[i].ttl <= 2

FetchStage == {"goto", "idle", "content", "src_close"}

(* C18: in the fetch stage a timeout of the network-idle wait is swallowed *)
(* and the attempt goes on to capture the content; a navigation failure or *)
(* navigation timeout fails the attempt, which takes the retry path; and   *)
(* either way the source page is closed when the stage is left.            *)
C18_Fetch ==
    [][\A i \in Workers :
          /\ (pc[i] = "idle" /\ waited'[i] = "timed_out") =>
                 /\ pc'[i] = "content"
                 /\ exc'[i] = "none"
                 /\ results'[i] = results[i]
          /\ (pc[i] = "goto" /\ pc'[i] # "goto" /\ pc'[i] # "idle") =>
                 /\ pc'[i] = "src_close"
                 /\ exc'[i] \in {"Error", "TimeoutError"}
          /\ (pc[i] = "src_close" /\ exc[i] # "none" /\ pc'[i] # "src_close") =>
                 /\ results'[i] = Append(results[i], "engine")
                 /\ \/ pc'[i] = "sleep" /\ Len(sleeps'[i]) = Len(sleeps[i]) + 1
                    \/ /\ pc'[i] = "done"
                       /\ emitted'[Len(emitted')] =
                              [worker |-> i, status |-> "fail", url |-> urls[i],
                               detail |-> exc[i]]
          /\ (pc[i] \in FetchStage /\ pc'[i] \notin FetchStage) =>
                 (pages[i].src = 1 /\ pages'[i].src = 0)]_vars

(* One worker captures the content after a timed-out wait while another    *)
(* closes its source page after a navigation timeout.                      *)
C18_Witness ==
    \E i, j \in Workers :
        /\ pc[i] = "content"
        /\ waited[i] = "timed_out"
        /\ pages[i].src = 1
        /\ pc[j] = "src_close"
        /\ exc[j] = "TimeoutError"

Sleeping == {i \in Workers : pc[i] = "sleep"}

(* C20 as stated: a sleeping worker keeps its permit, so with C permits    *)
(* and C workers sleeping no other worker can start an attempt until one   *)
(* of the sleeps ends.                                                     *)
C20_Original ==
    [][/\ sem + Cardinality(Sleeping) <= Max(1, max_concurrency)
       /\ Cardinality(Sleeping) = max_concurrency =>
              /\ sem = 0
              /\ \A j \in Workers : pc[j] \notin Guarded => pc'[j] \notin Guarded]_vars

(* C20 amended: a sleeping worker keeps its permit, so with the            *)
(* max(1, C) permits of the semaphore and that many workers sleeping no    *)
(* other worker can start an attempt until one of the sleeps ends.         *)
C20_SleepHoldsPermit ==
    [][/\ sem + Cardinality(Sleeping) <= (IF max_concurrency >= 1 THEN max_concurrency ELSE 1)
       /\ Cardinality(Sleeping) = (IF max_concurrency >= 1 THEN max_concurrency ELSE 1) =>
              /\ sem = 0
              /\ \A j \in Workers : pc[j] \notin Guarded => pc'[j] \notin Guarded]_vars

(* With one permit, one worker sleeps after a failed attempt while the     *)
(* other waits for the permit.                                             *)
C20_Witness ==
    \E i, j \in Workers :
        /\ max_concurrency = 1
        /\ pc[i] = "sleep"
        /\ Len(results[i]) >= 1
        /\ pc[j] = "acquire"
        /\ sem = 0

(* The stage of an attempt a worker is in, by its position.                *)
FetchPcs == {"src_new", "goto", "idle", "content", "src_close"}
ExtractPcs == {"proc_new", "proc_init", "inject", "extract"}
RenderPcs == {"render", "eager", "idle2"}
PrintPcs == {"pdf", "pdf_write", "proc_close"}
FinalizePcs == {"title_new", "title_goto", "title_read", "title_close", "finalize"}

StageOf(p) ==
    IF p \in FetchPcs THEN 1
    ELSE IF p \in ExtractPcs THEN 2
    ELSE IF p \in RenderPcs THEN 3
    ELSE IF p \in PrintPcs THEN 4
    ELSE IF p \in FinalizePcs THEN 5
    ELSE 0

(* C21: within an attempt the stages occur in the order fetch, extract,    *)
(* render, print, finalize. The source page is closed before the sandbox   *)
(* page is opened; the script is injected before the extraction is         *)
(* invoked; printing begins only when extraction and rendering have        *)
(* finished; the rename (the "ok" result) happens only after the print     *)
(* returned without an exception; and a step of a worker inside an attempt *)
(* stays in its stage or enters the next one, the rendering stage having   *)
(* nothing to do exactly when the extraction gave no content.              *)
C21_StageOrder ==
    [][\A i \in Workers :
        /\ StageOf(pc[i]) \in 2 .. 4 => pages[i].src = 0
        /\ (pc'[i] = "proc_new" /\ pc[i] # "proc_new") =>
               (pc[i] = "src_close" /\ exc[i] = "none" /\ pages'[i].src = 0)
        /\ (pc'[i] = "extract" /\ pc[i] # "extract") => pc[i] = "inject"
        /\ (pc'[i] = "pdf" /\ pc[i] # "pdf") =>
               \/ pc[i] = "idle2" /\ article[i] = "content"
               \/ pc[i] = "extract" /\ article'[i] \in {"empty", "null"}
        /\ (pc'[i] = "render" /\ pc[i] # "render") =>
               (pc[i] = "extract" /\ article'[i] = "content")
        /\ (pc'[i] = "title_new" /\ pc[i] # "title_new") =>
               (pc[i] = "proc_close" /\ exc[i] = "none")
        /\ (pc'[i] = "proc_close" /\ pc[i] # "proc_close" /\ exc'[i] = "none") =>
               pc[i] = "pdf_write"
        /\ Len(results'[i]) > Len(results[i]) /\ results'[i][Len(results'[i])] = "ok" =>
               pc[i] = "finalize"
        /\ (StageOf(pc[i]) > 0 /\ StageOf(pc'[i]) > 0 /\ attempt'[i] = attempt[i]) =>
               \/ StageOf(pc'[i]) = StageOf(pc[i])
               \/ StageOf(pc'[i]) = StageOf(pc[i]) + 1
               \/ pc[i] = "extract" /\ pc'[i] = "pdf"
        /\ (attempt'[i] = attempt[i] /\ StageOf(pc[i]) > 0 /\ pc'[i] # pc[i]) =>
               pc'[i] \notin {"src_new", "acquire", "start"}]_vars

(* A worker is about to rename the file of an attempt that went through   *)
(* the five stages: the article had content, it was rendered and printed.  *)
C21_Witness ==
    \E i \in Workers :
        /\ pc[i] = "finalize"
        /\ article[i] = "content"
        /\ pages[i].src = 0
        /\ temp_pdf_path(urls[i]) \in DOMAIN fs
        /\ fs[temp_pdf_path(urls[i])].writer = i
        /\ fs[temp_pdf_path(urls[i])].complete

(* C22: whenever an ok event of an address is in the queue or has been     *)
(* consumed, the file its detail names exists in the output directory; the *)
(* detail is the final name the collision loop chose (the event is put     *)
(* after the rename).                                                      *)
C22_Original ==
    \A k \in 1 .. Len(emitted) :
        emitted[k].status = "ok" => emitted[k].detail \in DOMAIN fs

(* The part of C22 that holds: at the step that puts an ok event the       *)
(* temporary file has just been moved to the name in the event, which was  *)
(* the first free candidate of the collision loop.                         *)
C22_AtEmission ==
    [][(Len(emitted') > Len(emitted) /\ emitted'[Len(emitted')].status = "ok") =>
          LET e == emitted'[Len(emitted')]
          IN  /\ e.detail \in DOMAIN fs'
              /\ e.detail \notin DOMAIN fs
              /\ e.detail = final_pdf_path(DOMAIN fs, sanitize_filename(title[e.worker]))
              /\ event_q' = Append(event_q, Event("ok", e.url, e.detail))]_vars

(* C23: once the semaphore exists, the permits held by workers plus the   *)
(* free permits are max(1, C); every exit from the guarded section (the    *)
(* return after success, the return after the final failure, the end of a  *)
(* backoff sleep) gives back exactly one permit and nothing else changes   *)
(* the count; when every worker has terminated all max(1, C) are free.     *)
C23_PermitConservation ==
    [][LET total == IF max_concurrency >= 1 THEN max_concurrency ELSE 1
           held == Cardinality({i \in Workers : pc[i] \in Guarded})
           held_after == Cardinality({i \in Workers : pc'[i] \in Guarded})
           leaving == {i \in Workers : pc[i] \in Guarded /\ pc'[i] \notin Guarded}
           entering == {i \in Workers : pc[i] \notin Guarded /\ pc'[i] \in Guarded}
       IN  /\ main \notin {"launch", "launch_error"} => sem + held = total
           /\ main' \notin {"launch", "launch_error"} => sem' + held_after = total
           /\ main # "launch" =>
                 /\ sem' = sem + Cardinality(leaving) - Cardinality(entering)
                 /\ Cardinality(leaving) + Cardinality(entering) <= 1
                 /\ \A i \in leaving : pc[i] \in {"sleep", "finalize"} \/ pc'[i] = "done"
           /\ (main' \notin {"launch", "launch_error"} /\ \A i \in Workers : pc'[i] = "done") =>
                 sem' = total]_vars

(* Every worker has terminated, one after a success and one after a        *)
(* backoff sleep and a final failure, and both permits are free.           *)
C23_Witness ==
    /\ AllTerminated
    /\ max_concurrency = 2
    /\ sem = 2
    /\ \E i, j \in Workers :
          /\ results[i][Len(results[i])] = "ok"
          /\ results[j][Len(results[j])] # "ok"
          /\ Len(sleeps[j]) >= 1

(* C24: with a configured concurrency of 0 or less the semaphore has       *)
(* exactly one permit: workers are admitted one at a time, and the run     *)
(* still terminates, with one TerminalEvent for every entry of the         *)
(* address list, instead of waiting forever with no worker admitted.       *)
C24_NonPositiveConcurrency ==
    /\ [](max_concurrency <= 0 =>
             /\ Cardinality(PastAdmission) <= 1
             /\ main \notin {"launch", "launch_error"} =>
                    sem + Cardinality(PastAdmission) = 1)
    /\ (max_concurrency <= 0 /\ main = "gather") ~>
           (/\ main = "closed"
            /\ \A i \in Workers : pc[i] = "done" /\ Cardinality(EventsOf(i)) = 1
            /\ Len(emitted) = Len(urls)
            /\ completed = Len(urls))

(* A run of two addresses with a negative concurrency has ended: both      *)
(* workers were admitted in turn and both events were consumed.            *)
C24_Witness ==
    /\ max_concurrency < 0
    /\ Len(urls) = 2
    /\ main = "closed"
    /\ Len(emitted) = 2
    /\ completed = 2

RECURSIVE OpenPagesUpTo(_)
OpenPagesUpTo(n) ==
    IF n = 0 THEN 0
    ELSE pages[n].src + pages[n].proc + pages[n].ttl + OpenPagesUpTo(n - 1)

(* The page handles open in the shared context, over all workers.          *)
OpenPages == OpenPagesUpTo(Len(urls))

(* C25: the number of open page handles in the shared context, summed      *)
(* over all workers, is at most max(1, C) in every state.                  *)
C25_Original ==
    OpenPages <= (IF max_concurrency >= 1 THEN max_concurrency ELSE 1)

(* The bound of C25 counts the handles of the attempts in progress (it     *)
(* holds): a worker inside the semaphore block works on one page at a      *)
(* time, so the handles that are not left over from a raise never          *)
(* outnumber the permits.                                                  *)
C25_InUse ==
    [][\A i \in Workers :
          /\ pages'[i].src + pages'[i].proc + pages'[i].ttl
                <= pages[i].src + pages[i].proc + pages[i].ttl + 1
          /\ (pages'[i].src + pages'[i].proc + pages'[i].ttl
                > pages[i].src + pages[i].proc + pages[i].ttl) =>
                 /\ pc[i] \in {"src_new", "proc_new", "title_new"}
                 /\ pc'[i] \in Guarded]_vars

(* C26: when an address is listed more than once and C >= 2, the workers  *)
(* of its occurrences do not interfere: a worker whose print has succeeded *)
(* finds at its temporary path the file its own print wrote, until it      *)
(* renames it, and no attempt of a worker fails because the temporary      *)
(* file was gone.                                                          *)
C26_Original ==
    (max_concurrency >= 2 /\ ~NoDuplicates) =>
        \A i \in Workers :
            /\ Printed(i) =>
                   /\ temp_pdf_path(urls[i]) \in DOMAIN fs
                   /\ fs[temp_pdf_path(urls[i])].writer = i
                   /\ fs[temp_pdf_path(urls[i])].att = attempt[i]
                   /\ fs[temp_pdf_path(urls[i])].complete
            /\ "os" \notin Range(results[i])

(* C26 for the runs with one permit: the attempts of the two occurrences   *)
(* never overlap between print and rename.                                 *)
C26_OnePermit ==
    (max_concurrency <= 1 /\ ~NoDuplicates) =>
        \A i \in Workers :
            /\ Printed(i) =>
                   /\ temp_pdf_path(urls[i]) \in DOMAIN fs
                   /\ fs[temp_pdf_path(urls[i])].writer = i
                   /\ fs[temp_pdf_path(urls[i])].att = attempt[i]
                   /\ fs[temp_pdf_path(urls[i])].complete
            /\ "os" \notin Range(results[i])

C27_SandboxPaths ==
    /\ (sync.pc \in {"returned", "raised"} /\ sync.src # "none") => sync.src = "closed"
    /\ (sync.pc \in {"returned", "raised"} /\ sync.proc # "none") =>
           /\ sync.proc = "closed"
           /\ sync.ctx = "closed"
           /\ sync.browser = "closed"
    /\ sync.pc = "returned" =>
           /\ sync.file = "written"
           /\ sync.ctx = "closed"
           /\ sync.browser = "closed"

(* C28: at the end of collect_links every collected link is attributed to *)
(* at most one base URL in links_by_source, and a link is attributed only  *)
(* to the base URL of the site task that collected it first, also when     *)
(* two base URLs are of the same domain.                                   *)
C28_Original ==
    collector.main \in {"close", "saved"} =>
        /\ \A b1, b2 \in DOMAIN collector.links_by_source :
              b1 # b2 => collector.links_by_source[b1] \cap collector.links_by_source[b2] = {}
        /\ \A b \in DOMAIN collector.links_by_source :
              \A l \in collector.links_by_source[b] :
                  collector.base_urls[collector.first[l]] = b

(* No two different base URLs of the run are of domains that               *)
(* _is_link_from_domain takes for one another.                             *)
UnrelatedDomains ==
    \A i, j \in Sites :
        collector.base_urls[i] # collector.base_urls[j] =>
            ~is_link_from_domain(Link(collector.base_urls[i].netloc, 1),
                                 collector.base_urls[j].netloc)

(* C28 for base URLs of unrelated domains (it holds there: the domain test *)
(* of the attribution keeps the sites apart).                              *)
C28_UnrelatedDomains == UnrelatedDomains => C28_Original

(* C29: the paginated walk requests pages in batches of at most 5 and no  *)
(* page above 100; the load-more walk makes at most 20 clicks and has      *)
(* never more than 3 consecutive clicks without a new link.                *)
C29_Original ==
    \A i \in Sites :
        /\ collector.site[i].batch_pages \subseteq 2 .. max_pages
        /\ Cardinality(collector.site[i].batch_pages) <= max_concurrent_pages
        /\ collector.site[i].click_count + collector.site[i].uncounted <= max_clicks
        /\ collector.site[i].consecutive_no_new <= limit_click_count

(* The part of C29 that holds: the bounds on the pages; at most 20 counted *)
(* clicks; a batch without a new link, a third consecutive click without   *)
(* one and an iteration without a counted click each end the walk.         *)
C29_Counted ==
    [][\A i \in Sites :
          LET site == collector.site[i]
              after == collector'.site[i]
          IN  /\ after.batch_pages \subseteq 2 .. max_pages
              /\ after.batch_pages # site.batch_pages =>
                    after.batch_pages =
                        site.page_num .. Min(site.page_num + max_concurrent_pages - 1, max_pages)
              /\ after.click_count <= max_clicks
              /\ after.consecutive_no_new <= limit_click_count
              /\ (site.pc = "batch" /\ after.pc = "batch" /\ after # site) =>
                    /\ collector'.collected_links # collector.collected_links
                    /\ after.page_num = site.page_num + max_concurrent_pages
                    /\ after.page_num <= max_pages
              /\ (site.pc = "click" /\ after.pc = "click" /\ after # site) =>
                    /\ after.click_count = site.click_count + 1
                    /\ after.click_count < max_clicks
                    /\ after.consecutive_no_new < limit_click_count]_vars

(* Every site task that started ends, and so does collect_links.           *)
C29_Terminates ==
    (collector.main = "gather") ~> (collector.main \in {"saved", "raised"})

=============================================================================
